---- MODULE Spec2Model ----
(***************************************************************************)
(* snaplog: the process-singleton lock file (main.go: acquireLock,         *)
(* isProcessRunning, releaseLock, main) and the global-hotkey lifecycle of *)
(* the App (app.go: startup, shutdown, SetSettings, startHotkeyDetection,  *)
(* stopHotkeyDetection and the listener goroutine).                        *)
(*                                                                         *)
(* Every file-system call of acquireLock/releaseLock is one step, so that  *)
(* several processes interleave at system-call granularity.                *)
(***************************************************************************)
EXTENDS Integers, Sequences, FiniteSets, TLC

\* ------------------------------------------------------------------ bounds
\* Number of snaplog processes that are launched on the machine.
NumProcs == 2

\* ------------------------------------------------------------- lock state
VARIABLES
    goos,        \* runtime.GOOS of the build under test
    marker,      \* the file at <config>/snaplog/snaplog.lock, or NoFile
    pc,          \* per process: position in main / acquireLock / releaseLock
    pidRead,     \* per process: local `pid` parsed at main.go:83 (0: none)
    lockFile,    \* per process: the package variable lockFile (main.go:24)
    acquired,    \* per process: what acquireLock returned ("none" before)
    notified,    \* per process: showAlreadyRunningNotification has run
    appCreated,  \* per process: NewApp() has run
    ranRelease,  \* per process: number of releaseLock calls so far
    exitCode,    \* per process: exit status (-1 while running)
    ioFault,     \* per process: the OS failed one of its file-system calls
    solo,        \* per process: no other process touched the marker since
                 \*              this one entered acquireLock
    startKind,   \* per process: the marker as it was on entering acquireLock
    startOwner   \* per process: the live pid in the marker on entering

lockVars == <<goos, marker, pc, pidRead, lockFile, acquired, notified,
              appCreated, ranRelease, exitCode, ioFault, solo, startKind,
              startOwner>>

\* ------------------------------------------------------------- app state
VARIABLES
    settings,       \* a.settings: [mods, key, firstRun]
    packageHotkey,  \* a.packageHotkey: the goroutine whose hk it holds, 0: nil
    cpc,            \* position of the thread running startup, the bound
                    \* calls and shutdown
    stopping,       \* the hk stopHotkeyDetection is unregistering (0: none)
    nCalls,         \* SetSettings calls made so far
    ssResult,       \* what the last SetSettings call returned
    setupShown,     \* the first-run setup window was requested by startup
    dbInit,         \* what initDatabase returned to startup
    runErr,         \* wails.Run returned an error
    nG,             \* startHotkeyDetection goroutines spawned so far
    gpc,            \* per goroutine: position in startHotkeyDetection
    hkBinding,      \* per goroutine: the (modifiers, key) its hk was built with
    hkState,        \* per goroutine: its hk is "new", "registered",
                    \* "unregistered", or "failed" (Register returned an error)
    hkGen,          \* per goroutine: 0 while hk.Keydown() is the channel made
                    \* by hotkey.New, 1 once Unregister has replaced it
    pending,        \* per goroutine: events queued in the first channel
    lpc,            \* per goroutine: position of the listener it started
    lchan           \* per goroutine: the channel its listener selects on

appVars == <<settings, packageHotkey, cpc, stopping, nCalls, ssResult, setupShown,
             dbInit,
             runErr, nG, gpc, hkBinding, hkState, hkGen, pending, lpc, lchan>>

\* ------------------------------------------- windows message-loop state
\* The first startHotkeyDetection of the windows build (hotkey_windows.go of
\* that version): RegisterHotKey, a GetMessage loop, UnregisterHotKey.
VARIABLES
    wpc,    \* position in that startHotkeyDetection
    wmsg,   \* the MSG filled by the last GetMessage call
    wlog    \* the calls made so far into user32 and to ShowWindow, in order

loopVars == <<wpc, wmsg, wlog>>

vars == <<lockVars, appVars, loopVars>>

Procs == 1 .. NumProcs
\* A live process that is not snaplog and happens to carry the pid found in
\* the marker (pid reuse), and the pid of an instance that died earlier.
ForeignPid == NumProcs + 1
StalePid == NumProcs + 2
AllPids == 1 .. (NumProcs + 2)

GOOS == {"windows", "darwin", "linux"}

NoFile == [exists |-> FALSE, content |-> <<>>, creator |-> 0]
NoHandle == "nil"

\* Positions inside acquireLock.
AcquirePcs == {"stat", "read", "probe", "remove", "create", "write", "wfremove"}
\* Positions at which the process exists as an OS process.
DeadPcs == {"init", "exited", "crashed"}

\* The OS process table.
ProcessExists(pid) ==
    \/ pid = ForeignPid
    \/ pid \in Procs /\ pc[pid] \notin DeadPcs

\* fmt.Sprintf("%d\n", pid): the decimal digits, then a newline.
FormatPid(pid) == <<ToString(pid), "\n">>

\* strings.TrimSpace on a token sequence: leading and trailing newlines go.
RECURSIVE TrimLeft(_)
TrimLeft(s) ==
    IF s # <<>> /\ Head(s) = "\n" THEN TrimLeft(Tail(s)) ELSE s

RECURSIVE TrimRight(_)
TrimRight(s) ==
    IF s # <<>> /\ s[Len(s)] = "\n" THEN TrimRight(SubSeq(s, 1, Len(s) - 1)) ELSE s

TrimSpace(s) == TrimRight(TrimLeft(s))

\* strconv.Atoi: ok only for exactly one run of decimal digits; 0 stands for
\* the error return.
Atoi(s) ==
    IF Len(s) = 1 /\ \E n \in AllPids : ToString(n) = s[1]
    THEN CHOOSE n \in AllPids : ToString(n) = s[1]
    ELSE 0

\* isProcessRunning: os.FindProcess on windows (OpenProcess fails for a pid
\* that does not exist), `ps -p` on darwin, stat of /proc/<pid> elsewhere.
isProcessRunningStale(pid) == FALSE
isProcessRunning(pid) ==
    IF goos = "windows" THEN ProcessExists(pid)
    ELSE IF goos = "darwin" THEN ProcessExists(pid)
    ELSE ProcessExists(pid)

\* A file that some live process still holds open cannot be deleted on
\* windows (the handle of main.go:95 is opened without delete sharing); on
\* the other systems the name is unlinked and the handle stays valid.
HeldOpen ==
    /\ marker.exists
    /\ \E q \in Procs : /\ pc[q] \notin DeadPcs
                        /\ lockFile[q] = "open"
                        /\ marker.creator = q

\* os.Remove(lockFilePath): the marker after the call (errors are ignored
\* by every caller).
RemoveMarkerNever == marker
RemoveMarker ==
    IF marker.exists /\ ~(goos = "windows" /\ HeldOpen) THEN NoFile ELSE marker

\* The marker seen by a process entering acquireLock.
MarkerKind ==
    IF ~marker.exists THEN "absent"
    ELSE IF Atoi(TrimSpace(marker.content)) = 0 THEN "unparsable"
    ELSE IF ProcessExists(Atoi(TrimSpace(marker.content))) THEN "live"
    ELSE "stale"

\* Every other process loses its "undisturbed" mark when p touches the marker.
Disturb(p) == [q \in Procs |-> IF q = p THEN solo[q] ELSE FALSE]

\* The observations kept about one call of acquireLock (ioFault, solo,
\* startKind, startOwner) end when main has branched on its result.
EndAcquire(p) ==
    /\ ioFault' = [ioFault EXCEPT ![p] = FALSE]
    /\ solo' = [solo EXCEPT ![p] = FALSE]
    /\ startKind' = [startKind EXCEPT ![p] = "none"]
    /\ startOwner' = [startOwner EXCEPT ![p] = 0]

\* acquireLock returns: main.go:28 branches on the result.
ReturnAcquireUnchecked(p, ok) ==
    /\ acquired' = [acquired EXCEPT ![p] = IF ok THEN "true" ELSE "false"]
    /\ pc' = [pc EXCEPT ![p] = "newapp"]
    /\ pidRead' = [pidRead EXCEPT ![p] = 0]
ReturnAcquire(p, ok) ==
    /\ acquired' = [acquired EXCEPT ![p] = IF ok THEN "true" ELSE "false"]
    /\ pc' = [pc EXCEPT ![p] = IF ok THEN "newapp" ELSE "notify"]
    /\ pidRead' = [pidRead EXCEPT ![p] = 0]

LockInit ==
    /\ goos \in GOOS
    /\ marker \in {NoFile,
                   [exists |-> TRUE, content |-> FormatPid(StalePid), creator |-> 0],
                   [exists |-> TRUE, content |-> FormatPid(ForeignPid), creator |-> 0]}
    /\ pc = [p \in Procs |-> "init"]
    /\ pidRead = [p \in Procs |-> 0]
    /\ lockFile = [p \in Procs |-> NoHandle]
    /\ acquired = [p \in Procs |-> "none"]
    /\ notified = [p \in Procs |-> FALSE]
    /\ appCreated = [p \in Procs |-> FALSE]
    /\ ranRelease = [p \in Procs |-> 0]
    /\ exitCode = [p \in Procs |-> -1]
    /\ ioFault = [p \in Procs |-> FALSE]
    /\ solo = [p \in Procs |-> FALSE]
    /\ startKind = [p \in Procs |-> "none"]
    /\ startOwner = [p \in Procs |-> 0]

\* main.go:63-75: os.UserConfigDir and os.MkdirAll; either may fail.
AcquireDirs(p) ==
    /\ pc[p] = "init"
    /\ startKind' = [startKind EXCEPT ![p] = MarkerKind]
    /\ startOwner' = [startOwner EXCEPT ![p] =
            IF MarkerKind = "live" THEN Atoi(TrimSpace(marker.content)) ELSE 0]
    /\ solo' = [q \in Procs |->
            IF q = p THEN \A r \in Procs \ {p} : pc[r] \notin AcquirePcs
            ELSE solo[q]]
    /\ \E fails \in BOOLEAN :
          IF fails
          THEN /\ ioFault' = [ioFault EXCEPT ![p] = TRUE]
               /\ ReturnAcquire(p, FALSE)
          ELSE /\ pc' = [pc EXCEPT ![p] = "stat"]
               /\ UNCHANGED <<ioFault, acquired, pidRead>>
    /\ UNCHANGED <<goos, marker, lockFile, notified, appCreated, ranRelease,
                   exitCode>>
    /\ UNCHANGED <<appVars, loopVars>>

\* main.go:78: os.Stat(lockFilePath).
Stat(p) ==
    /\ pc[p] = "stat"
    /\ pc' = [pc EXCEPT ![p] = IF marker.exists THEN "read" ELSE "create"]
    /\ solo' = Disturb(p)
    /\ UNCHANGED <<goos, marker, pidRead, lockFile, acquired, notified,
                   appCreated, ranRelease, exitCode, ioFault, startKind,
                   startOwner>>
    /\ UNCHANGED <<appVars, loopVars>>

\* main.go:80-83: os.ReadFile, strings.TrimSpace, strconv.Atoi.  A read
\* error or an unparsable content falls through to the create.
ReadPid(p) ==
    /\ pc[p] = "read"
    /\ \E fails \in BOOLEAN :
          LET pid == IF fails \/ ~marker.exists THEN 0
                     ELSE Atoi(TrimSpace(marker.content))
          IN /\ pidRead' = [pidRead EXCEPT ![p] = pid]
             /\ pc' = [pc EXCEPT ![p] = IF pid = 0 THEN "create" ELSE "probe"]
             /\ ioFault' = [ioFault EXCEPT ![p] = ioFault[p] \/ fails]
    /\ solo' = Disturb(p)
    /\ UNCHANGED <<goos, marker, lockFile, acquired, notified, appCreated,
                   ranRelease, exitCode, startKind, startOwner>>
    /\ UNCHANGED <<appVars, loopVars>>

\* main.go:84-87: a running owner makes acquireLock return false.
Probe(p) ==
    /\ pc[p] = "probe"
    /\ IF isProcessRunning(pidRead[p])
       THEN ReturnAcquire(p, FALSE)
       ELSE /\ pc' = [pc EXCEPT ![p] = "remove"]
            /\ UNCHANGED <<acquired, pidRead>>
    /\ solo' = Disturb(p)
    /\ UNCHANGED <<goos, marker, lockFile, notified, appCreated, ranRelease,
                   exitCode, ioFault, startKind, startOwner>>
    /\ UNCHANGED <<appVars, loopVars>>

\* main.go:89: os.Remove of the marker believed stale.
RemoveStale(p) ==
    /\ pc[p] = "remove"
    /\ marker' = RemoveMarker
    /\ pc' = [pc EXCEPT ![p] = "create"]
    /\ solo' = Disturb(p)
    /\ UNCHANGED <<goos, pidRead, lockFile, acquired, notified, appCreated,
                   ranRelease, exitCode, ioFault, startKind, startOwner>>
    /\ UNCHANGED <<appVars, loopVars>>

\* main.go:95-99: os.OpenFile with O_CREATE|O_WRONLY|O_EXCL.
CreateTruncating(p) ==
    /\ pc[p] = "create"
    /\ \E fails \in BOOLEAN :
          IF fails
          THEN /\ ReturnAcquire(p, FALSE)
               /\ ioFault' = [ioFault EXCEPT ![p] = TRUE]
               /\ UNCHANGED <<marker, lockFile>>
          ELSE /\ marker' = [exists |-> TRUE, content |-> <<>>, creator |-> p]
               /\ lockFile' = [lockFile EXCEPT ![p] = "open"]
               /\ pc' = [pc EXCEPT ![p] = "write"]
               /\ UNCHANGED <<acquired, ioFault, pidRead>>
    /\ solo' = Disturb(p)
    /\ UNCHANGED <<goos, notified, appCreated, ranRelease, exitCode,
                   startKind, startOwner>>
    /\ UNCHANGED <<appVars, loopVars>>
CreateExclusive(p) ==
    /\ pc[p] = "create"
    /\ \E fails \in BOOLEAN :
          IF marker.exists \/ fails
          THEN /\ ReturnAcquire(p, FALSE)
               /\ ioFault' = [ioFault EXCEPT ![p] = ioFault[p] \/ ~marker.exists]
               /\ UNCHANGED <<marker, lockFile>>
          ELSE /\ marker' = [exists |-> TRUE, content |-> <<>>, creator |-> p]
               /\ lockFile' = [lockFile EXCEPT ![p] = "open"]
               /\ pc' = [pc EXCEPT ![p] = "write"]
               /\ UNCHANGED <<acquired, ioFault, pidRead>>
    /\ solo' = Disturb(p)
    /\ UNCHANGED <<goos, notified, appCreated, ranRelease, exitCode,
                   startKind, startOwner>>
    /\ UNCHANGED <<appVars, loopVars>>

\* main.go:102-108, 113: write the pid through the open handle.  The bytes go
\* to the file the handle refers to, which is the marker only while nobody
\* has unlinked it.
WritePid(p) ==
    /\ pc[p] = "write"
    /\ \E fails \in BOOLEAN :
          IF fails
          THEN /\ lockFile' = [lockFile EXCEPT ![p] = "closed"]
               /\ ioFault' = [ioFault EXCEPT ![p] = TRUE]
               /\ pc' = [pc EXCEPT ![p] = "wfremove"]
               /\ UNCHANGED <<marker, acquired, pidRead>>
          ELSE /\ marker' = IF marker.exists /\ marker.creator = p
                            THEN [marker EXCEPT !.content = FormatPid(p)]
                            ELSE marker
               /\ ReturnAcquire(p, TRUE)
               /\ UNCHANGED <<lockFile, ioFault>>
    /\ solo' = Disturb(p)
    /\ UNCHANGED <<goos, notified, appCreated, ranRelease, exitCode,
                   startKind, startOwner>>
    /\ UNCHANGED <<appVars, loopVars>>

\* main.go:106-107: the failed write removes the marker path and returns.
WriteFailRemove(p) ==
    /\ pc[p] = "wfremove"
    /\ marker' = RemoveMarker
    /\ ReturnAcquire(p, FALSE)
    /\ solo' = Disturb(p)
    /\ UNCHANGED <<goos, lockFile, notified, appCreated, ranRelease,
                   exitCode, ioFault, startKind, startOwner>>
    /\ UNCHANGED <<appVars, loopVars>>

\* main.go:30: showAlreadyRunningNotification.
Notify(p) ==
    /\ pc[p] = "notify"
    /\ notified' = [notified EXCEPT ![p] = TRUE]
    /\ pc' = [pc EXCEPT ![p] = "exit0"]
    /\ EndAcquire(p)
    /\ UNCHANGED <<goos, marker, pidRead, lockFile, acquired, appCreated,
                   ranRelease, exitCode>>
    /\ UNCHANGED <<appVars, loopVars>>

\* main.go:31: os.Exit(0); deferred calls do not run, the OS closes what
\* the process had open.
ExitZero(p) ==
    /\ pc[p] = "exit0"
    /\ exitCode' = [exitCode EXCEPT ![p] = 0]
    /\ pc' = [pc EXCEPT ![p] = "exited"]
    /\ lockFile' = [lockFile EXCEPT ![p] = NoHandle]
    /\ UNCHANGED <<goos, marker, pidRead, acquired, notified, appCreated,
                   ranRelease, ioFault, solo, startKind, startOwner>>
    /\ UNCHANGED <<appVars, loopVars>>

\* main.go:33-36: defer releaseLock(); app := NewApp().
CreateApp(p) ==
    /\ pc[p] = "newapp"
    /\ appCreated' = [appCreated EXCEPT ![p] = TRUE]
    /\ pc' = [pc EXCEPT ![p] = "run"]
    /\ EndAcquire(p)
    /\ UNCHANGED <<goos, marker, pidRead, lockFile, acquired, notified,
                   ranRelease, exitCode>>
    /\ UNCHANGED <<appVars, loopVars>>

\* os.Remove(lockFilePath) once p has closed its own handle (main.go:185,
\* 188-192): on windows only the open handle of another process keeps the
\* file from being deleted.
RemoveMarkerAfterClose(p) ==
    IF /\ marker.exists
       /\ ~(/\ goos = "windows"
            /\ \E q \in Procs \ {p} : /\ pc[q] \notin DeadPcs
                                       /\ lockFile[q] = "open"
                                       /\ marker.creator = q)
    THEN NoFile
    ELSE marker

\* releaseLock (main.go:183-193): close the handle when there is one, then
\* remove the marker path.
releaseLockEffectKeeping(p) ==
    /\ lockFile' = [lockFile EXCEPT ![p] = NoHandle]
    /\ marker' = marker
    /\ ranRelease' = [ranRelease EXCEPT ![p] = @ + 1]
    /\ solo' = Disturb(p)
releaseLockEffect(p) ==
    /\ lockFile' = [lockFile EXCEPT ![p] = NoHandle]
    /\ marker' = RemoveMarkerAfterClose(p)
    /\ ranRelease' = [ranRelease EXCEPT ![p] = @ + 1]
    /\ solo' = Disturb(p)

\* main.go:56-59 and the deferred call of main.go:33: main returns, the
\* deferred releaseLock runs, the process ends with status 0.
ReleaseLock(p) ==
    /\ pc[p] = "release"
    /\ releaseLockEffect(p)
    /\ exitCode' = [exitCode EXCEPT ![p] = 0]
    /\ pc' = [pc EXCEPT ![p] = "exited"]
    /\ UNCHANGED <<goos, pidRead, acquired, notified, appCreated, ioFault,
                   startKind, startOwner>>
    /\ UNCHANGED <<appVars, loopVars>>

\* The process is killed (or the machine loses power): nothing of main runs
\* any more, its memory is gone and the OS closes its handles.  The marker
\* stays as it is.
Crash(p) ==
    /\ pc[p] \notin DeadPcs
    /\ pc' = [pc EXCEPT ![p] = "crashed"]
    /\ pidRead' = [pidRead EXCEPT ![p] = 0]
    /\ lockFile' = [lockFile EXCEPT ![p] = NoHandle]
    /\ acquired' = [acquired EXCEPT ![p] = "none"]
    /\ appCreated' = [appCreated EXCEPT ![p] = FALSE]
    /\ ioFault' = [ioFault EXCEPT ![p] = FALSE]
    /\ solo' = [q \in Procs |-> FALSE]
    /\ startKind' = [startKind EXCEPT ![p] = "none"]
    /\ startOwner' = [startOwner EXCEPT ![p] = 0]
    /\ UNCHANGED <<goos, marker, notified, ranRelease, exitCode>>
    /\ UNCHANGED <<appVars, loopVars>>

\* The steps of main outside wails.Run, for process p.
MainStep(p) ==
    \/ AcquireDirs(p)
    \/ Stat(p)
    \/ ReadPid(p)
    \/ Probe(p)
    \/ RemoveStale(p)
    \/ CreateExclusive(p)
    \/ WritePid(p)
    \/ WriteFailRemove(p)
    \/ Notify(p)
    \/ ExitZero(p)
    \/ CreateApp(p)
    \/ ReleaseLock(p)


\* ------------------------------------------------------------ the App
\* The process whose App is modelled in full.
AppProc == CHOOSE p \in Procs : \A q \in Procs : p <= q

\* Number of SetSettings calls the frontend makes in one run.
MaxSetSettings == 1
\* Hotkey presses that may wait undelivered in one event channel.
MaxPending == 1

\* Number of SetSettings calls in a run in which every call is made only
\* after the one before it, and the goroutines it started, have finished.
MaxReconfigure == 2

\* startHotkeyDetection goroutines: one from startup, one per SetSettings.
Gs == 1 .. ((IF MaxReconfigure > MaxSetSettings THEN MaxReconfigure
             ELSE MaxSetSettings) + 1)


\* The bindings the settings dialog offers in this model.
BindingA == [mods |-> <<"ctrl", "shift">>, key |-> "l"]
BindingB == [mods |-> <<"alt">>, key |-> "s"]
Bindings == {BindingA, BindingB}

NoBinding == [mods |-> <<>>, key |-> "none"]

\* parseModifiers (hotkey_windows.go, build tag !darwin).
ModifierOtherDefaulting(name) ==
    IF name = "alt" THEN <<"ModAlt">>
    ELSE IF name = "shift" THEN <<"ModShift">>
    ELSE <<"ModCtrl">>
ModifierOther(name) ==
    IF name = "ctrl" THEN <<"ModCtrl">>
    ELSE IF name \in {"cmd", "meta"} THEN <<"ModCtrl">>
    ELSE IF name = "alt" THEN <<"ModAlt">>
    ELSE IF name = "shift" THEN <<"ModShift">>
    ELSE <<>>

\* parseModifiers (hotkey_darwin.go).
ModifierDarwin(name) ==
    IF name = "ctrl" THEN <<"ModCtrl">>
    ELSE IF name \in {"cmd", "meta"} THEN <<"ModCtrl">>
    ELSE IF name = "alt" THEN <<"ModOption">>
    ELSE IF name = "shift" THEN <<"ModShift">>
    ELSE <<>>

RECURSIVE parseModifiersOn(_, _)
parseModifiersOn(os, modStrings) ==
    IF modStrings = <<>> THEN <<>>
    ELSE (IF os = "darwin" THEN ModifierDarwin(Head(modStrings))
          ELSE ModifierOther(Head(modStrings)))
         \o parseModifiersOn(os, Tail(modStrings))

parseModifiers(modStrings) == parseModifiersOn(goos, modStrings)

\* The key switch of startHotkeyDetection (app.go:1102-1116).
parseKeyRejecting(k) ==
    IF k = "l" THEN "KeyL"
    ELSE IF k = "s" THEN "KeyS"
    ELSE IF k = "t" THEN "KeyT"
    ELSE IF k = "n" THEN "KeyN"
    ELSE IF k = "space" THEN "KeySpace"
    ELSE "none"
parseKey(k) ==
    IF k = "l" THEN "KeyL"
    ELSE IF k = "s" THEN "KeyS"
    ELSE IF k = "t" THEN "KeyT"
    ELSE IF k = "n" THEN "KeyN"
    ELSE IF k = "space" THEN "KeySpace"
    ELSE "KeyL"

\* The App's goroutines run only while the process does.
AppAliveUngated == pc[AppProc] \notin DeadPcs
AppAlive == pc[AppProc] = "run"

\* The registrations of this process the OS currently honours.
LiveRegistrations == {g \in Gs : hkState[g] = "registered" /\ ProcessExists(AppProc)}

AppInit ==
    \* NewApp (app.go:246-256)
    /\ settings = [mods |-> <<"ctrl", "shift">>, key |-> "l", firstRun |-> TRUE]
    /\ packageHotkey = 0
    /\ cpc = "prestart"
    /\ stopping = 0
    /\ nCalls = 0
    /\ ssResult = "none"
    /\ setupShown = FALSE
    /\ dbInit = "none"
    /\ runErr = FALSE
    /\ nG = 0
    /\ gpc = [g \in Gs |-> "none"]
    /\ hkBinding = [g \in Gs |-> NoBinding]
    /\ hkState = [g \in Gs |-> "new"]
    /\ hkGen = [g \in Gs |-> 0]
    /\ pending = [g \in Gs |-> 0]
    /\ lpc = [g \in Gs |-> "none"]
    /\ lchan = [g \in Gs |-> 0]

\* WM_HOTKEY = 0x0312, the message type the OS posts when a hotkey fires.
WM_HOTKEY == 786

\* a.hotkeyId = uintptr(1), assigned by startup before the goroutine is spawned.
hotkeyId == 1

\* `var msg MSG`: the zero value, before GetMessage has filled it.
NoMsg == [UINT |-> 0, WPARAM |-> 0]

\* The message-loop state before the windows startHotkeyDetection has begun.
\* wpc = "loop" is the top of the for loop, "body" the point after the two
\* tests of GetMessage's result, "after" the statement after the loop.
WinInit ==
    /\ wpc = "idle"
    /\ wmsg = NoMsg
    /\ wlog = <<>>

Init == LockInit /\ AppInit /\ WinInit

\* `go a.startHotkeyDetection()`.
SpawnDetection ==
    /\ nG' = nG + 1
    /\ gpc' = [gpc EXCEPT ![nG + 1] = "spawned"]

\* wails.Run fails before the application starts (main.go:39, 56-58).
WailsRunFails ==
    /\ AppAlive /\ cpc = "prestart"
    /\ runErr' = TRUE
    /\ cpc' = "returned"
    /\ pc' = [pc EXCEPT ![AppProc] = "release"]
    /\ UNCHANGED loopVars
    /\ UNCHANGED <<goos, marker, pidRead, lockFile, acquired, notified,
                   appCreated, ranRelease, exitCode, ioFault, solo, startKind,
                   startOwner>>
    /\ UNCHANGED <<settings, packageHotkey, stopping, nCalls, ssResult, setupShown, dbInit, nG,
                   gpc, hkBinding, hkState, hkGen, pending, lpc, lchan>>

\* App.startup (app.go:258-286).  loadSettings keeps the defaults of NewApp
\* (no file, or a file that does not parse) or installs the stored settings,
\* one of Stored; initDatabase may fail, and then startup returns at once.
startupWithDetectionAnyway(Stored) ==
    /\ AppAlive /\ cpc = "prestart"
    /\ \E fromFile \in BOOLEAN, loaded \in Stored, storedFirstRun \in BOOLEAN,
          dbOk \in BOOLEAN :
          LET s == IF ~fromFile THEN settings
                   ELSE [mods |-> loaded.mods, key |-> loaded.key,
                         firstRun |-> storedFirstRun]
          IN /\ settings' = s
             /\ dbInit' = IF dbOk THEN "ok" ELSE "failed"
             /\ IF ~dbOk
                THEN /\ SpawnDetection
                     /\ UNCHANGED setupShown
                ELSE IF s.firstRun
                THEN /\ setupShown' = TRUE
                     /\ UNCHANGED <<nG, gpc>>
                ELSE /\ SpawnDetection
                     /\ UNCHANGED setupShown
    /\ cpc' = "idle"
    /\ UNCHANGED <<lockVars, loopVars>>
    /\ UNCHANGED <<packageHotkey, stopping, nCalls, ssResult, runErr, hkBinding, hkState,
                   hkGen, pending, lpc, lchan>>
startupWith(Stored) ==
    /\ AppAlive /\ cpc = "prestart"
    /\ \E fromFile \in BOOLEAN, loaded \in Stored, storedFirstRun \in BOOLEAN,
          dbOk \in BOOLEAN :
          LET s == IF ~fromFile THEN settings
                   ELSE [mods |-> loaded.mods, key |-> loaded.key,
                         firstRun |-> storedFirstRun]
          IN /\ settings' = s
             /\ dbInit' = IF dbOk THEN "ok" ELSE "failed"
             /\ IF ~dbOk
                THEN UNCHANGED <<setupShown, nG, gpc>>
                ELSE IF s.firstRun
                THEN /\ setupShown' = TRUE
                     /\ UNCHANGED <<nG, gpc>>
                ELSE /\ SpawnDetection
                     /\ UNCHANGED setupShown
    /\ cpc' = "idle"
    /\ UNCHANGED <<lockVars, loopVars>>
    /\ UNCHANGED <<packageHotkey, stopping, nCalls, ssResult, runErr, hkBinding, hkState,
                   hkGen, pending, lpc, lchan>>

\* startup when settings.json holds one of the bindings the dialog offers.
startup == startupWith(Bindings)

\* startHotkeyDetection, app.go:1100-1118: read a.settings, build hk.
DetectionNew(g) ==
    /\ AppAlive /\ gpc[g] = "spawned"
    /\ hkBinding' = [hkBinding EXCEPT ![g] =
            [mods |-> parseModifiers(settings.mods), key |-> parseKey(settings.key)]]
    /\ gpc' = [gpc EXCEPT ![g] = "register"]
    /\ UNCHANGED <<lockVars, loopVars>>
    /\ UNCHANGED <<settings, packageHotkey, cpc, stopping, nCalls, ssResult, setupShown, dbInit,
                   runErr, nG, hkState, hkGen, pending, lpc, lchan>>

\* The registration the OS is certain to refuse: on windows a combination
\* that is registered already cannot be registered again.  Any other may be
\* granted or refused (missing permission, combination taken elsewhere).
RegisterRefused(g) ==
    /\ goos = "windows"
    /\ \E h \in LiveRegistrations : hkBinding[h] = hkBinding[g]

\* startHotkeyDetection, app.go:1120-1124: hk.Register(); on an error the
\* function returns.
DetectionRegisterStoring(g) ==
    /\ AppAlive /\ gpc[g] = "register"
    /\ \E ok \in (IF RegisterRefused(g) THEN {FALSE} ELSE BOOLEAN) :
          /\ hkState' = [hkState EXCEPT ![g] = IF ok THEN "registered" ELSE "failed"]
          /\ gpc' = [gpc EXCEPT ![g] = "store"]
    /\ UNCHANGED <<lockVars, loopVars>>
    /\ UNCHANGED <<settings, packageHotkey, cpc, stopping, nCalls, ssResult, setupShown, dbInit,
                   runErr, nG, hkBinding, hkGen, pending, lpc, lchan>>
DetectionRegisterFatal(g) ==
    /\ AppAlive /\ gpc[g] = "register"
    /\ \E ok \in (IF RegisterRefused(g) THEN {FALSE} ELSE BOOLEAN) :
          /\ hkState' = [hkState EXCEPT ![g] = IF ok THEN "registered" ELSE "failed"]
          /\ gpc' = [gpc EXCEPT ![g] = IF ok THEN "store" ELSE "done"]
          /\ pc' = [pc EXCEPT ![AppProc] = IF ok THEN @ ELSE "release"]
    /\ UNCHANGED loopVars
    /\ UNCHANGED <<goos, marker, pidRead, lockFile, acquired, notified,
                   appCreated, ranRelease, exitCode, ioFault, solo, startKind,
                   startOwner>>
    /\ UNCHANGED <<settings, packageHotkey, cpc, stopping, nCalls, ssResult, setupShown, dbInit,
                   runErr, nG, hkBinding, hkGen, pending, lpc, lchan>>
DetectionRegister(g) ==
    /\ AppAlive /\ gpc[g] = "register"
    /\ \E ok \in (IF RegisterRefused(g) THEN {FALSE} ELSE BOOLEAN) :
          /\ hkState' = [hkState EXCEPT ![g] = IF ok THEN "registered" ELSE "failed"]
          /\ gpc' = [gpc EXCEPT ![g] = IF ok THEN "store" ELSE "done"]
    /\ UNCHANGED <<lockVars, loopVars>>
    /\ UNCHANGED <<settings, packageHotkey, cpc, stopping, nCalls, ssResult, setupShown, dbInit,
                   runErr, nG, hkBinding, hkGen, pending, lpc, lchan>>

\* startHotkeyDetection, app.go:1126-1138: a.packageHotkey = hk, and the
\* listener goroutine is started.
DetectionStore(g) ==
    /\ AppAlive /\ gpc[g] = "store"
    /\ packageHotkey' = g
    /\ lpc' = [lpc EXCEPT ![g] = "eval"]
    /\ gpc' = [gpc EXCEPT ![g] = "done"]
    /\ UNCHANGED <<lockVars, loopVars>>
    /\ UNCHANGED <<settings, cpc, stopping, nCalls, ssResult, setupShown, dbInit, runErr, nG,
                   hkBinding, hkState, hkGen, pending, lchan>>

\* The user presses the combination of a live registration: the package
\* queues one event on the channel hotkey.New made for that hk.
Fire(g) ==
    /\ AppAlive /\ hkState[g] = "registered"
    /\ pending[g] < MaxPending
    /\ pending' = [pending EXCEPT ![g] = @ + 1]
    /\ UNCHANGED <<lockVars, loopVars>>
    /\ UNCHANGED <<settings, packageHotkey, cpc, stopping, nCalls, ssResult, setupShown, dbInit,
                   runErr, nG, gpc, hkBinding, hkState, hkGen, lpc, lchan>>

\* Listener, app.go:1130-1132, first iteration: the select evaluates
\* hk.Keydown() and blocks on the channel it got.
ListenerSelect(g) ==
    /\ AppAlive /\ lpc[g] = "eval"
    /\ lchan' = [lchan EXCEPT ![g] = hkGen[g]]
    /\ lpc' = [lpc EXCEPT ![g] = "wait"]
    /\ UNCHANGED <<lockVars, loopVars>>
    /\ UNCHANGED <<settings, packageHotkey, cpc, stopping, nCalls, ssResult,
                   setupShown, dbInit, runErr, nG, gpc, hkBinding, hkState, hkGen,
                   pending>>

\* The first channel of an hk delivers its queued events and, once
\* Unregister has closed it, the zero Event without blocking.  The channel
\* Unregister puts in its place never carries anything.
ChannelReady(g) ==
    /\ lchan[g] = 0
    /\ \/ pending[g] > 0
       \/ hkState[g] = "unregistered"

\* Listener, app.go:1132: the receive returns.
ListenerReceiveDropping(g) ==
    /\ AppAlive /\ lpc[g] = "wait"
    /\ ChannelReady(g)
    /\ pending' = [pending EXCEPT ![g] = IF @ > 0 THEN @ - 1 ELSE 0]
    /\ lpc' = [lpc EXCEPT ![g] = IF pending[g] > 0 THEN "wait" ELSE "callback"]
    /\ UNCHANGED <<lockVars, loopVars>>
    /\ UNCHANGED <<settings, packageHotkey, cpc, stopping, nCalls, ssResult,
                   setupShown, dbInit, runErr, nG, gpc, hkBinding, hkState, hkGen, lchan>>
ListenerReceive(g) ==
    /\ AppAlive /\ lpc[g] = "wait"
    /\ ChannelReady(g)
    /\ pending' = [pending EXCEPT ![g] = IF @ > 0 THEN @ - 1 ELSE 0]
    /\ lpc' = [lpc EXCEPT ![g] = "callback"]
    /\ UNCHANGED <<lockVars, loopVars>>
    /\ UNCHANGED <<settings, packageHotkey, cpc, stopping, nCalls, ssResult,
                   setupShown, dbInit, runErr, nG, gpc, hkBinding, hkState, hkGen, lchan>>

\* Listener, app.go:1133-1134 and back to 1130: a.ShowWindow() runs, and the
\* select of the next iteration evaluates hk.Keydown() again and blocks.
ListenerShowWindow(g) ==
    /\ AppAlive /\ lpc[g] = "callback"
    /\ lpc' = [lpc EXCEPT ![g] = "wait"]
    /\ lchan' = [lchan EXCEPT ![g] = hkGen[g]]
    /\ UNCHANGED <<lockVars, loopVars>>
    /\ UNCHANGED <<settings, packageHotkey, cpc, stopping, nCalls, ssResult,
                   setupShown, dbInit, runErr, nG, gpc, hkBinding, hkState, hkGen,
                   pending>>

\* App.SetSettings, app.go:1162-1167: install the settings, clear FirstRun,
\* save; a failed save returns the error.
SetSettingsReleasing(b) ==
    /\ AppAlive /\ cpc = "idle"
    /\ nCalls < MaxSetSettings
    /\ nCalls' = nCalls + 1
    /\ settings' = [mods |-> b.mods, key |-> b.key, firstRun |-> FALSE]
    /\ \E saved \in BOOLEAN :
          IF saved
          THEN /\ cpc' = "ss_stop"
               /\ ssResult' = "pending"
          ELSE /\ cpc' = "idle"
               /\ ssResult' = "error"
    /\ releaseLockEffect(AppProc)
    /\ UNCHANGED loopVars
    /\ UNCHANGED <<goos, pc, pidRead, acquired, notified, appCreated, exitCode,
                   ioFault, startKind, startOwner>>
    /\ UNCHANGED <<packageHotkey, stopping, setupShown, dbInit, runErr, nG, gpc,
                   hkBinding, hkState, hkGen, pending, lpc, lchan>>
SetSettingsUpTo(b, max) ==
    /\ AppAlive /\ cpc = "idle"
    /\ nCalls < max
    /\ nCalls' = nCalls + 1
    /\ settings' = [mods |-> b.mods, key |-> b.key, firstRun |-> FALSE]
    /\ \E saved \in BOOLEAN :
          IF saved
          THEN /\ cpc' = "ss_stop"
               /\ ssResult' = "pending"
          ELSE /\ cpc' = "idle"
               /\ ssResult' = "error"
    /\ UNCHANGED <<lockVars, loopVars>>
    /\ UNCHANGED <<packageHotkey, stopping, setupShown, dbInit, runErr, nG, gpc,
                   hkBinding, hkState, hkGen, pending, lpc, lchan>>

\* The calls the frontend makes at any time while the App is idle.
SetSettings(b) == SetSettingsUpTo(b, MaxSetSettings)

\* App.shutdown is entered (app.go:288-290).
shutdown ==
    /\ AppAlive /\ cpc = "idle"
    /\ cpc' = "sd_stop"
    /\ UNCHANGED <<lockVars, loopVars>>
    /\ UNCHANGED <<settings, packageHotkey, stopping, nCalls, ssResult,
                   setupShown, dbInit, runErr, nG, gpc, hkBinding, hkState, hkGen,
                   pending, lpc, lchan>>

\* What follows stopHotkeyDetection in its caller.  SetSettings
\* (app.go:1170-1172) starts a new detection goroutine and returns nil;
\* shutdown (app.go:292-309) closes the server, the database and the log,
\* after which wails.Run returns to main.
AfterStop ==
    IF cpc \in {"ss_stop", "ss_unreg"}
    THEN /\ SpawnDetection
         /\ ssResult' = "nil"
         /\ cpc' = "idle"
         /\ UNCHANGED pc
    ELSE /\ cpc' = "returned"
         /\ pc' = [pc EXCEPT ![AppProc] = "release"]
         /\ UNCHANGED <<nG, gpc, ssResult>>

\* hk.Unregister of the hotkey package on the hk of goroutine h: the native
\* registration goes and the event channel is closed; on an hk that is not
\* registered it returns an error and changes nothing.
UnregisterNative(h) ==
    [hkState EXCEPT ![h] = IF @ = "registered" THEN "unregistered" ELSE @]

\* stopHotkeyDetection, app.go:1141-1143: nothing to do on a nil handle;
\* otherwise a.packageHotkey.Unregister() is entered.
StopUnregisterSweeping ==
    /\ AppAlive /\ cpc \in {"ss_stop", "sd_stop"}
    /\ IF packageHotkey = 0
       THEN /\ AfterStop
            /\ hkState' = [g \in Gs |-> UnregisterNative(g)[g]]
            /\ UNCHANGED stopping
       ELSE /\ hkState' = UnregisterNative(packageHotkey)
            /\ stopping' = packageHotkey
            /\ cpc' = IF cpc = "ss_stop" THEN "ss_unreg" ELSE "sd_unreg"
            /\ UNCHANGED <<pc, nG, gpc, ssResult>>
    /\ UNCHANGED loopVars
    /\ UNCHANGED <<goos, marker, pidRead, lockFile, acquired, notified,
                   appCreated, ranRelease, exitCode, ioFault, solo, startKind,
                   startOwner>>
    /\ UNCHANGED <<settings, packageHotkey, nCalls, setupShown, dbInit, runErr,
                   hkBinding, hkGen, pending, lpc, lchan>>
StopUnregister ==
    /\ AppAlive /\ cpc \in {"ss_stop", "sd_stop"}
    /\ IF packageHotkey = 0
       THEN /\ AfterStop
            /\ UNCHANGED <<hkState, stopping>>
       ELSE /\ hkState' = UnregisterNative(packageHotkey)
            /\ stopping' = packageHotkey
            /\ cpc' = IF cpc = "ss_stop" THEN "ss_unreg" ELSE "sd_unreg"
            /\ UNCHANGED <<pc, nG, gpc, ssResult>>
    /\ UNCHANGED loopVars
    /\ UNCHANGED <<goos, marker, pidRead, lockFile, acquired, notified,
                   appCreated, ranRelease, exitCode, ioFault, solo, startKind,
                   startOwner>>
    /\ UNCHANGED <<settings, packageHotkey, nCalls, setupShown, dbInit, runErr,
                   hkBinding, hkGen, pending, lpc, lchan>>

\* stopHotkeyDetection, app.go:1143-1144: Unregister installs a fresh event
\* channel in the hk and returns; a.packageHotkey = nil.
StopFinish ==
    /\ AppAlive /\ cpc \in {"ss_unreg", "sd_unreg"}
    /\ hkGen' = [hkGen EXCEPT ![stopping] =
            IF hkState[stopping] = "unregistered" THEN 1 ELSE @]
    /\ packageHotkey' = 0
    /\ stopping' = 0
    /\ AfterStop
    /\ UNCHANGED loopVars
    /\ UNCHANGED <<goos, marker, pidRead, lockFile, acquired, notified,
                   appCreated, ranRelease, exitCode, ioFault, solo, startKind,
                   startOwner>>
    /\ UNCHANGED <<settings, nCalls, setupShown, dbInit, runErr, hkBinding, hkState,
                   pending, lpc, lchan>>

\* ------------------------------------------------------- specifications
\* wails.Run as seen by the lock: the application runs and returns.
RunApp(p) ==
    /\ pc[p] = "run"
    /\ pc' = [pc EXCEPT ![p] = "release"]
    /\ UNCHANGED <<goos, marker, pidRead, lockFile, acquired, notified,
                   appCreated, ranRelease, exitCode, ioFault, solo, startKind,
                   startOwner>>
    /\ UNCHANGED <<appVars, loopVars>>

\* Several processes racing for the marker.
LockNext ==
    \E p \in Procs :
        \/ MainStep(p)
        \/ RunApp(p)
        \/ Crash(p)

LockSpec == Init /\ [][LockNext]_vars

\* The same processes on a machine where snaplog has not run before (or has
\* always shut down in order): there is no marker when the first one starts.
RaceInit == Init /\ marker = NoFile

RaceSpec == RaceInit /\ [][LockNext]_vars

\* One process from launch to exit, its App in full.
Next ==
    \/ MainStep(AppProc)
    \/ WailsRunFails
    \/ startup
    \/ \E b \in Bindings : SetSettings(b)
    \/ shutdown
    \/ StopUnregister
    \/ StopFinish
    \/ \E g \in Gs :
          \/ DetectionNew(g)
          \/ DetectionRegister(g)
          \/ DetectionStore(g)
          \/ Fire(g)
          \/ ListenerSelect(g)
          \/ ListenerReceive(g)
          \/ ListenerShowWindow(g)

Spec == Init /\ [][Next]_vars


\* settings.json is plain JSON that loadSettings (app.go:1175-1203) takes as
\* it is: hotkey_modifiers may hold any strings, known to parseModifiers or
\* not, in any order and number.
MaxMods == 3

ModNames == {"ctrl", "cmd", "meta", "alt", "shift", "super", "Ctrl"}

SeqsUpTo(S, n) == UNION {[1 .. k -> S] : k \in 0 .. n}

\* hotkey_key may hold any string as well.
KeyNames == {"l", "s", "t", "n", "space", "", "x", "L", "enter"}

StoredSettings ==
    {[mods |-> m, key |-> "l"] : m \in SeqsUpTo(ModNames, MaxMods)}
    \cup {[mods |-> <<"ctrl", "shift">>, key |-> k] : k \in KeyNames}

startupAnySettings == startupWith(StoredSettings)

\* One process from launch until startHotkeyDetection has translated the
\* stored binding and asked for its registration.
ParseNext ==
    \/ MainStep(AppProc)
    \/ WailsRunFails
    \/ startupAnySettings
    \/ \E g \in Gs :
          \/ DetectionNew(g)
          \/ DetectionRegister(g)

ParseSpec == Init /\ [][ParseNext]_vars

\* Nothing is in flight: the bound call has returned, every detection
\* goroutine has finished and every listener is blocked in its select.
Quiescent ==
    /\ cpc = "idle"
    /\ \A g \in Gs : /\ gpc[g] \in {"none", "done"}
                     /\ lpc[g] \in {"none", "wait"}
                     /\ lpc[g] = "wait" => ~ChannelReady(g)

\* SetSettings called by a user who waits for each change of the binding to
\* take effect before asking for the next.
Reconfigure(b) ==
    /\ Quiescent
    /\ SetSettingsUpTo(b, MaxReconfigure)

\* One process whose binding is changed step by step.
SeqNext ==
    \/ MainStep(AppProc)
    \/ WailsRunFails
    \/ startup
    \/ \E b \in Bindings : Reconfigure(b)
    \/ StopUnregister
    \/ StopFinish
    \/ \E g \in Gs :
          \/ DetectionNew(g)
          \/ DetectionRegister(g)
          \/ DetectionStore(g)
          \/ Fire(g)
          \/ ListenerSelect(g)
          \/ ListenerReceive(g)
          \/ ListenerShowWindow(g)

SeqSpec == Init /\ [][SeqNext]_vars

\* A caller that runs releaseLock where main does not: after a failed
\* acquireLock (no handle was ever stored or it is closed), or once more
\* after the deferred call.  Used to examine releaseLock on its own.
MaxReleaseCalls == 2

ReleaseLockAgain(p) ==
    /\ pc[p] \in {"notify", "release"}
    /\ ranRelease[p] < MaxReleaseCalls
    /\ releaseLockEffect(p)
    /\ UNCHANGED <<goos, pc, pidRead, acquired, notified, appCreated, exitCode,
                   ioFault, startKind, startOwner>>
    /\ UNCHANGED <<appVars, loopVars>>

ReleaseNext ==
    \/ LockNext
    \/ \E p \in Procs : ReleaseLockAgain(p)

ReleaseSpec == Init /\ [][ReleaseNext]_vars

\* ------------------------------------------- the windows message loop
\* The hotkey listener of the windows build that talks to user32 directly:
\* RegisterHotKey, a GetMessage loop on the goroutine, UnregisterHotKey.

\* Messages the loop is given to retrieve.
MaxMsgs == 3

\* One call in wlog: what was called, what it returned, and the MSG it was
\* handed or filled.
Call(op, ret, m) == [op |-> op, ret |-> ret, msg |-> m]

\* What GetMessage can fill into msg: the hotkey message type or another
\* one, carrying this hotkey's id or another one.
Msgs == [UINT : {WM_HOTKEY, WM_HOTKEY + 1}, WPARAM : {hotkeyId, hotkeyId + 1}]

\* GetMessageW's result as the loop reads it: 0 for WM_QUIT, -1
\* (^uintptr(0)) for an error, anything else for a retrieved message.
GetMessageRets == {0, -1, 1}

Retrieved == {i \in 1 .. Len(wlog) : wlog[i].op = "GetMessage" /\ wlog[i].ret = 1}

\* `msg.UINT == WM_HOTKEY && msg.WPARAM == a.hotkeyId`
IsHotkeyMessageAnyId(m) == m.UINT = WM_HOTKEY
IsHotkeyMessage(m) == m.UINT = WM_HOTKEY /\ m.WPARAM = hotkeyId

\* startup of that version: records the hotkey id and spawns the listener.
WinStartup ==
    /\ AppAlive /\ goos = "windows"
    /\ cpc = "prestart" /\ wpc = "idle"
    /\ cpc' = "started"
    /\ wpc' = "register"
    /\ UNCHANGED <<wmsg, wlog>>
    /\ UNCHANGED lockVars
    /\ UNCHANGED <<settings, packageHotkey, stopping, nCalls, ssResult, setupShown, dbInit,
                   runErr, nG, gpc, hkBinding, hkState, hkGen, pending, lpc, lchan>>

\* RegisterHotKey(0, a.hotkeyId, MOD_CONTROL|MOD_SHIFT, VK_L); a zero result
\* is reported and the function returns.
WinRegister ==
    /\ AppAlive /\ wpc = "register"
    /\ \E ret \in {0, 1} :
         /\ wlog' = Append(wlog, Call("RegisterHotKey", ret, NoMsg))
         /\ wpc' = IF ret = 0 THEN "done" ELSE "loop"
    /\ UNCHANGED wmsg
    /\ UNCHANGED <<lockVars, appVars>>

\* One GetMessage call and the two tests of its result.  WM_QUIT and an
\* error leave the loop; msg is not read again after either.
WinGetMessage ==
    /\ AppAlive /\ wpc = "loop"
    /\ \E ret \in GetMessageRets :
         IF ret = 1
         THEN /\ Cardinality(Retrieved) < MaxMsgs
              /\ \E m \in Msgs :
                   /\ wmsg' = m
                   /\ wlog' = Append(wlog, Call("GetMessage", ret, m))
              /\ wpc' = "body"
         ELSE /\ wlog' = Append(wlog, Call("GetMessage", ret, wmsg))
              /\ wpc' = "after"
              /\ UNCHANGED wmsg
    /\ UNCHANGED <<lockVars, appVars>>

\* The rest of the loop body: ShowWindow for the hotkey's own message, then
\* TranslateMessage and DispatchMessage for every message.
WinHandleMessage ==
    /\ AppAlive /\ wpc = "body"
    /\ wlog' = wlog
                 \o (IF IsHotkeyMessage(wmsg)
                     THEN <<Call("ShowWindow", 0, wmsg)>> ELSE <<>>)
                 \o <<Call("TranslateMessage", 0, wmsg),
                      Call("DispatchMessage", 0, wmsg)>>
    /\ wpc' = "loop"
    /\ UNCHANGED wmsg
    /\ UNCHANGED <<lockVars, appVars>>

\* UnregisterHotKey(0, a.hotkeyId) after the loop.
WinUnregister ==
    /\ AppAlive /\ wpc = "after"
    /\ wlog' = Append(wlog, Call("UnregisterHotKey", 1, NoMsg))
    /\ wpc' = "done"
    /\ UNCHANGED wmsg
    /\ UNCHANGED <<lockVars, appVars>>

MsgNext ==
    \/ MainStep(AppProc)
    \/ WailsRunFails
    \/ WinStartup
    \/ WinRegister
    \/ WinGetMessage
    \/ WinHandleMessage
    \/ WinUnregister

MsgSpec == Init /\ [][MsgNext]_vars

\* ----------------------------------------------------------------- claims
\* acquireLock has returned true in p, and p runs and has not released.
Holder(p) == pc[p] \in {"newapp", "run", "release"}

\* p is inside acquireLock or main has not yet branched on its result.
InAcquire(p) == pc[p] \in AcquirePcs \cup {"newapp", "notify"}

\* C1: at no time do two live processes both hold a successfully acquired
\* lock, whatever the interleaving of their acquireLock steps.
C1_SingleHolder == Cardinality({p \in Procs : Holder(p)}) <= 1

\* C2: when q holds the lock and is alive, an acquireLock by p that starts
\* then (nobody else being in acquireLock) fails, and at every point of it the
\* marker is still q's file with q's pid in it.
C2_SecondAcquireFails ==
    \A p \in Procs, q \in Procs :
        (/\ p # q
         /\ InAcquire(p) /\ solo[p]
         /\ startKind[p] = "live" /\ startOwner[p] = q
         /\ Holder(q))
        => /\ pc[p] \in {"stat", "read", "probe", "create", "notify"}
           /\ acquired[p] # "true"
           /\ marker = [exists |-> TRUE, content |-> FormatPid(q), creator |-> q]

C2_Witness ==
    \E p \in Procs, q \in Procs :
        /\ p # q /\ solo[p] /\ startKind[p] = "live" /\ startOwner[p] = q
        /\ Holder(q)
        /\ pc[p] = "notify" /\ acquired[p] = "false"

\* C3: an acquireLock that finds a marker whose pid is of no running
\* process, and runs without another process touching the marker and without
\* a file-system error, deletes the marker, creates it anew and returns true
\* with its own pid in it.
C3_StaleReclaimed ==
    \A p \in Procs :
        (InAcquire(p) /\ solo[p] /\ startKind[p] = "stale" /\ ~ioFault[p])
        => /\ pc[p] # "notify"
           /\ pc[p] = "create" => ~marker.exists
           /\ pc[p] = "write" =>
                 marker = [exists |-> TRUE, content |-> <<>>, creator |-> p]
           /\ pc[p] = "newapp" =>
                 /\ acquired[p] = "true"
                 /\ marker = [exists |-> TRUE, content |-> FormatPid(p), creator |-> p]
                 /\ Atoi(TrimSpace(marker.content)) = p

C3_Witness ==
    \E p \in Procs :
        /\ solo[p] /\ startKind[p] = "stale" /\ ~ioFault[p]
        /\ pc[p] = "newapp"
        /\ marker.content = FormatPid(p)

\* C4: whatever marker a crashed owner left behind (none, its pid, or the
\* empty file between create and write), the next launch acquires the lock
\* when no other instance is alive and no file-system call fails.
C4_CrashRecovery ==
    \A p \in Procs :
        (/\ pc[p] \in {"newapp", "notify"}
         /\ solo[p] /\ ~ioFault[p]
         /\ startKind[p] \in {"absent", "stale", "unparsable"}
         /\ \A q \in Procs \ {p} : pc[q] \in DeadPcs)
        => acquired[p] = "true"

\* C5: releaseLock called without a held handle (acquireLock never
\* succeeded, or releaseLock ran already) leaves the marker as it is.
C5_ReleaseWithoutHandleIsNoop ==
    [][\A p \in Procs :
          (ranRelease'[p] = ranRelease[p] + 1 /\ lockFile[p] # "open")
          => marker' = marker]_vars

\* C6: when acquireLock fails, the process shows the notification and then
\* exits with status 0; it never creates the App, never starts hotkey
\* detection and never runs releaseLock.
C6_FailedAcquireExits ==
    \A p \in Procs :
        acquired[p] = "false"
        => /\ pc[p] \in {"notify", "exit0", "exited"}
           /\ pc[p] \in {"exit0", "exited"} => notified[p]
           /\ pc[p] = "exited" => exitCode[p] = 0
           /\ pc[p] # "exited" => exitCode[p] = -1
           /\ ~appCreated[p]
           /\ ranRelease[p] = 0
           /\ p = AppProc =>
                 /\ cpc = "prestart" /\ nG = 0 /\ packageHotkey = 0
                 /\ \A g \in Gs : hkState[g] = "new" /\ lpc[g] = "none"

C6_Witness ==
    /\ acquired[AppProc] = "false"
    /\ pc[AppProc] = "exited"
    /\ notified[AppProc]
    /\ exitCode[AppProc] = 0

\* C7: at most one hotkey registration of the process is live at any time.
C7_AtMostOneRegistration == Cardinality(LiveRegistrations) <= 1

\* The transitions in flight: a detection goroutine that startup or a
\* SetSettings call started and that has not finished registering, and the
\* SetSettings or shutdown call that is inside stopHotkeyDetection.
DetectionsInFlight == {g \in Gs : gpc[g] \in {"spawned", "register", "store"}}
StopInFlight == cpc \in {"ss_stop", "ss_unreg", "sd_stop", "sd_unreg"}

\* C8: the unregister/register transitions of startup, SetSettings and
\* shutdown are serialized: never are two of them in flight together.
C8_TransitionsSerialized ==
    Cardinality(DetectionsInFlight) + (IF StopInFlight THEN 1 ELSE 0) <= 1

\* C9: once the stop of a registration has been requested, its listener
\* never calls ShowWindow again.
C9_NoShowAfterStop ==
    [][\A g \in Gs :
          (lpc[g] = "callback" /\ lpc'[g] = "wait")
          => hkState[g] # "unregistered"]_vars

\* One step of the listener of goroutine g.
ListenerStep(g) ==
    \/ ListenerSelect(g)
    \/ ListenerReceive(g)
    \/ ListenerShowWindow(g)

\* C10: after the stop of its registration the listener terminates.  The
\* loop of app.go:1130-1136 has no exit, so a listener that has started is
\* never finished; the least the claim needs is that a stopped listener can
\* still move, which a listener blocked on the replaced channel cannot.
C10_StoppedListenerExits ==
    \A g \in Gs :
        (AppAlive /\ hkState[g] = "unregistered" /\ lpc[g] # "none")
        => ENABLED ListenerStep(g)

\* The listener goroutines that have been started and have not returned (the
\* loop of app.go:1130-1136 never returns).
Listeners == {g \in Gs : lpc[g] # "none"}

\* C11: at every moment the process has at most one listener goroutine, and
\* a listener exists only for a registration that is live.
C11_AtMostOneListener ==
    /\ Cardinality(Listeners) <= 1
    /\ \A g \in Listeners : g \in LiveRegistrations

\* C12: when the registration started by a SetSettings call fails, that call
\* does not return nil.  After startup every detection goroutine is spawned
\* by SetSettings, so the goroutine of the last call that returned nil is the
\* last one spawned.
C12_RegistrationFailureReported ==
    (ssResult = "nil" /\ nG > 0) => hkState[nG] # "failed"

\* startHotkeyDetection of goroutine g has called parseModifiers.
Translated(g) == gpc[g] \notin {"none", "spawned"}

\* C13: for the stored modifiers (ctrl, shift), parseModifiers yields exactly
\* {Command, Shift} on the macOS build and exactly {Control, Shift} on the
\* Windows/Linux build.
C13_CtrlShiftPerPlatform ==
    \A g \in Gs :
        (Translated(g) /\ settings.mods = <<"ctrl", "shift">>)
        => LET out == hkBinding[g].mods
           IN {out[i] : i \in 1 .. Len(out)} =
                 IF goos = "darwin" THEN {"ModCmd", "ModShift"}
                 ELSE {"ModCtrl", "ModShift"}

\* C14: for each single name of the platform table parseModifiers yields the
\* table's modifier: cmd and meta give Control on Windows/Linux and Command
\* on macOS, alt gives Alt on Windows/Linux and Option on macOS, shift gives
\* Shift on both.
C14_PlatformTable ==
    \A g \in Gs :
        (/\ Translated(g)
         /\ Len(settings.mods) = 1
         /\ settings.mods[1] \in {"cmd", "meta", "alt", "shift"})
        => LET name == settings.mods[1]
               want == IF name \in {"cmd", "meta"}
                       THEN (IF goos = "darwin" THEN "ModCmd" ELSE "ModCtrl")
                       ELSE IF name = "alt"
                       THEN (IF goos = "darwin" THEN "ModOption" ELSE "ModAlt")
                       ELSE "ModShift"
           IN hkBinding[g].mods = <<want>>

\* C15: parseModifiers returns for every sequence of strings; names outside
\* {ctrl, cmd, meta, alt, shift} contribute nothing, and the result holds one
\* modifier per known name, in the order of the input (a Control or Command
\* bit for ctrl, cmd and meta, an Alt or Option bit for alt, the Shift bit
\* for shift), so an input without a known name gives the empty result.
C15_ParseModifiersTotal ==
    \A g \in Gs :
        Translated(g)
        => LET known == SelectSeq(settings.mods,
                            LAMBDA n : n \in {"ctrl", "cmd", "meta", "alt", "shift"})
               out == hkBinding[g].mods
           IN /\ Len(out) = Len(known)
              /\ \A i \in 1 .. Len(known) :
                    out[i] \in (IF known[i] \in {"ctrl", "cmd", "meta"}
                                THEN {"ModCtrl", "ModCmd"}
                                ELSE IF known[i] = "alt"
                                THEN {"ModAlt", "ModOption"}
                                ELSE {"ModShift"})

\* A translation of stored modifiers that mix unknown and known names.
C15_Witness ==
    \E g \in Gs :
        /\ Translated(g)
        /\ settings.mods = <<"super", "alt", "Ctrl">>
        /\ hkBinding[g].mods # <<>>

\* The process holds the lock: its handle is open and the marker is the file
\* it created, with its pid.
LockHeld ==
    /\ lockFile[AppProc] = "open"
    /\ marker = [exists |-> TRUE, content |-> FormatPid(AppProc), creator |-> AppProc]

\* C16: a failed hk.Register() in startHotkeyDetection leaves the process
\* running and the lock held, starts no listener and stores no handle; when
\* it was the detection started by startup, the process has no hotkey and no
\* listener at all.  (Until shutdown is asked for, which ends the process.)
C16_FailedRegistrationKeepsRunning ==
    \A g \in Gs :
        (hkState[g] = "failed" /\ cpc \in {"idle", "ss_stop", "ss_unreg"})
        => /\ pc[AppProc] = "run"
           /\ exitCode[AppProc] = -1
           /\ ranRelease[AppProc] = 0
           /\ LockHeld
           /\ lpc[g] = "none"
           /\ packageHotkey # g
           /\ nCalls = 0 => /\ packageHotkey = 0
                            /\ Listeners = {}
                            /\ LiveRegistrations = {}

C16_Witness ==
    \E g \in Gs :
        /\ hkState[g] = "failed" /\ gpc[g] = "done"
        /\ nCalls = 0 /\ cpc = "idle"
        /\ pc[AppProc] = "run" /\ LockHeld

\* C17: when SetSettings has unregistered the binding that was registered
\* and the registration of the new one fails, the process ends up without a
\* hotkey: no registration is live, no handle is stored and no listener
\* runs, neither for the old binding nor for the new one.
C17_DegradedAfterFailedReconfigure ==
    (/\ ssResult = "nil" /\ cpc = "idle"
     /\ nG > 1
     /\ hkState[nG] = "failed"
     /\ \E a \in Gs : a # nG /\ hkState[a] = "unregistered"
     /\ \A g \in Gs : gpc[g] \in {"none", "done"})
    => /\ LiveRegistrations = {}
       /\ packageHotkey = 0
       /\ Listeners = {}

\* C18: when main is about to release the lock (wails.Run has returned,
\* after shutdown or with an error), the listener has been stopped and the
\* hotkey unregistered; and a process that had acquired the lock has, when
\* it is gone, run releaseLock exactly once as its last step, the marker
\* being removed.
C18_TeardownBeforeRelease ==
    /\ pc[AppProc] = "release"
       => /\ LiveRegistrations = {}
          /\ Listeners = {}
          /\ packageHotkey = 0
    /\ (pc[AppProc] = "exited" /\ acquired[AppProc] = "true")
       => /\ ranRelease[AppProc] = 1
          /\ ~marker.exists

\* C19: once shutdown has completed, no hotkey registration of the process
\* is live, whatever detection goroutine was still on its way.
C19_NoRegistrationAfterShutdown ==
    (cpc = "returned" /\ ~runErr) => LiveRegistrations = {}

C21_ThereAndBackAgain ==
    (/\ Quiescent
     /\ nG >= 3
     /\ \A g \in 1 .. nG : hkState[g] # "failed"
     /\ hkBinding[nG] = hkBinding[nG - 2]
     /\ hkBinding[nG - 1] # hkBinding[nG])
    => /\ LiveRegistrations = {nG}
       /\ packageHotkey = nG
       /\ Listeners = {nG}

C23_ExitStatuses ==
    /\ pc[AppProc] \in {"notify", "exit0"} => MarkerKind = "live"
    /\ (pc[AppProc] = "exited" /\ runErr) => exitCode[AppProc] # 0

\* C24: a SetSettings call made while no hotkey is active, here after a
\* startup that went to the first-run setup and started no detection, does
\* not run the unregister/register sequence: no detection goroutine is
\* started and no hotkey becomes registered.
C24_ReconfigureOnlyWhenActive ==
    (setupShown /\ nCalls > 0) => (nG = 0 /\ LiveRegistrations = {})

\* C25: starting without a marker, and as long as no process was killed and
\* none has released the lock, at most one process has acquired it; once all
\* of them have returned from acquireLock, without file-system errors,
\* exactly one has; and the winner's marker is on disk with the winner's pid,
\* whatever the losers did.
C25_ExclusiveCreateOneWinner ==
    (\A r \in Procs : pc[r] # "crashed" /\ ranRelease[r] = 0)
    => LET winners == {p \in Procs : acquired[p] = "true"}
       IN /\ Cardinality(winners) <= 1
          /\ (\A p \in Procs : pc[p] \in {"newapp", "notify"} /\ ~ioFault[p])
             => Cardinality(winners) = 1
          /\ \A p \in winners :
                marker = [exists |-> TRUE, content |-> FormatPid(p), creator |-> p]

\* Every process has returned from acquireLock, one with true, the others
\* with false.
C25_Witness ==
    /\ \A p \in Procs : pc[p] \in {"newapp", "notify"} /\ ~ioFault[p]
    /\ \E p \in Procs :
          /\ acquired[p] = "true"
          /\ \A q \in Procs \ {p} : acquired[q] = "false"
          /\ marker = [exists |-> TRUE, content |-> FormatPid(p), creator |-> p]

\* C26: when the only running instance shuts down in order, releaseLock
\* leaves no marker and no open handle; and a process launched after an
\* instance has exited that way, finding no marker and undisturbed by other
\* processes and file-system errors, acquires the lock.  Each process of the
\* model is one start/stop cycle.
C26_RoundTrip ==
    /\ [][\A p \in Procs :
             (/\ pc[p] = "release" /\ pc'[p] = "exited"
              /\ \A q \in Procs \ {p} : pc[q] \in DeadPcs)
             => (~marker'.exists /\ lockFile'[p] = NoHandle)]_vars
    /\ [](\A p \in Procs :
             (/\ pc[p] \in {"newapp", "notify"}
              /\ solo[p] /\ ~ioFault[p] /\ startKind[p] = "absent"
              /\ \E q \in Procs \ {p} : pc[q] = "exited" /\ ranRelease[q] > 0)
             => acquired[p] = "true")

\* A second cycle: one instance acquired the lock, ran and released it, and
\* the next one, started on the clean directory, has acquired it again.
C26_Witness ==
    \E p \in Procs, q \in Procs :
        /\ p # q
        /\ pc[q] = "exited" /\ acquired[q] = "true" /\ ranRelease[q] = 1
        /\ pc[p] = "newapp" /\ acquired[p] = "true"
        /\ solo[p] /\ startKind[p] = "absent"
        /\ marker = [exists |-> TRUE, content |-> FormatPid(p), creator |-> p]

\* C27: the step in which hk.Register() fails changes neither
\* a.packageHotkey nor any listener, and the goroutine is finished with it:
\* a failed hk is never stored, never has a listener, is not registered with
\* the OS and has had nothing done to its event channel.
C27_RegistrationAllOrNothing ==
    /\ [][\A g \in Gs :
             (gpc[g] = "register" /\ hkState'[g] = "failed")
             => (packageHotkey' = packageHotkey /\ lpc' = lpc)]_vars
    /\ [](\A g \in Gs :
             hkState[g] = "failed"
             => /\ gpc[g] = "done"
                /\ lpc[g] = "none"
                /\ packageHotkey # g
                /\ g \notin LiveRegistrations
                /\ hkGen[g] = 0 /\ pending[g] = 0)

\* A registration has failed while the handle of another hotkey was stored,
\* and that handle is still the one stored.
C27_Witness ==
    \E g \in Gs :
        /\ hkState[g] = "failed" /\ gpc[g] = "done"
        /\ packageHotkey \notin {0, g}
        /\ hkState[packageHotkey] = "registered"

\* C28: a stopHotkeyDetection that finds a.packageHotkey nil makes no native
\* unregister call and changes nothing of the hotkeys, their channels and
\* listeners; and when any stopHotkeyDetection returns, a.packageHotkey is
\* nil.
C28_StopIdempotent ==
    [][/\ (/\ cpc \in {"ss_stop", "sd_stop"} /\ cpc' # cpc
           /\ packageHotkey = 0)
          => /\ hkState' = hkState /\ hkGen' = hkGen /\ pending' = pending
             /\ lpc' = lpc /\ lchan' = lchan
             /\ packageHotkey' = 0
       /\ (/\ cpc \in {"ss_stop", "ss_unreg", "sd_stop", "sd_unreg"}
           /\ cpc' \in {"idle", "returned"})
          => packageHotkey' = 0]_vars

\* stopHotkeyDetection ran twice in a row, for SetSettings and for shutdown,
\* finding no handle either time, and left alone the registration that a
\* detection goroutine had made and not yet stored.
C28_Witness ==
    /\ cpc = "returned" /\ ~runErr
    /\ nCalls = 1 /\ ssResult = "nil"
    /\ packageHotkey = 0
    /\ \E g \in Gs :
          /\ hkState[g] = "registered"
          /\ \A h \in Gs \ {g} : hkState[h] = "new"

C30_KeyAlwaysKnown ==
    \A g \in Gs :
        Translated(g)
        => LET k == settings.key
               want == IF k = "s" THEN "KeyS"
                       ELSE IF k = "t" THEN "KeyT"
                       ELSE IF k = "n" THEN "KeyN"
                       ELSE IF k = "space" THEN "KeySpace"
                       ELSE "KeyL"
           IN /\ hkBinding[g].key = want
              /\ hkBinding[g].key \in {"KeyL", "KeyS", "KeyT", "KeyN", "KeySpace"}

\* A hotkey was registered from settings whose key is the empty string.
C30_Witness ==
    \E g \in Gs :
        /\ hkState[g] = "registered"
        /\ settings.key = ""
        /\ hkBinding[g].key = "KeyL"

\* ---- C31 ----
Calls(op) == {i \in 1 .. Len(wlog) : wlog[i].op = op}

RegistrationFailed == Calls("RegisterHotKey") # {} /\ wlog[1].ret = 0
RegistrationMade == Calls("RegisterHotKey") # {} /\ wlog[1].ret # 0
LoopEnders == {i \in Calls("GetMessage") : wlog[i].ret \in {0, -1}}

\* C31: in the windows message loop a failed registration returns with no
\* GetMessage and no UnregisterHotKey call; otherwise ShowWindow is called
\* exactly for the retrieved messages of type WM_HOTKEY carrying the
\* registered id, every retrieved message goes on to TranslateMessage and
\* DispatchMessage, the loop is left only after GetMessage reported WM_QUIT
\* or an error, and UnregisterHotKey is called once, after the loop, never
\* while it runs.
C31_MessageLoop ==
    /\ RegistrationFailed => (Len(wlog) = 1 /\ wpc = "done")
    /\ \A i \in Calls("ShowWindow") : i - 1 \in Retrieved
    /\ \A i \in Retrieved :
         i < Len(wlog) =>
           LET show == wlog[i].msg.UINT = WM_HOTKEY /\ wlog[i].msg.WPARAM = hotkeyId
               j == IF show THEN i + 2 ELSE i + 1
           IN  /\ (wlog[i + 1].op = "ShowWindow") <=> show
               /\ wlog[j] = Call("TranslateMessage", 0, wlog[i].msg)
               /\ wlog[j + 1] = Call("DispatchMessage", 0, wlog[i].msg)
    /\ Cardinality(Calls("DispatchMessage")) <= Cardinality(Retrieved)
    /\ Cardinality(Calls("TranslateMessage")) <= Cardinality(Retrieved)
    /\ (RegistrationMade /\ wpc \in {"after", "done"}) => LoopEnders # {}
    /\ \A i \in LoopEnders : \A k \in Calls("GetMessage") : k <= i
    /\ (RegistrationMade /\ LoopEnders = {}) => wpc \in {"loop", "body"}
    /\ Cardinality(Calls("UnregisterHotKey")) <= 1
    /\ \A i \in Calls("UnregisterHotKey") : i = Len(wlog) /\ i - 1 \in LoopEnders
    /\ (RegistrationMade /\ wpc = "done") => Calls("UnregisterHotKey") # {}
    /\ wpc \in {"loop", "body"} => Calls("UnregisterHotKey") = {}

\* The loop has shown the window for the hotkey's message, passed on a
\* WM_HOTKEY message of another id without showing it, and unregistered.
C31_Witness ==
    /\ wpc = "done"
    /\ Calls("ShowWindow") # {}
    /\ \E i \in Retrieved :
         /\ wlog[i].msg.UINT = WM_HOTKEY /\ wlog[i].msg.WPARAM # hotkeyId
         /\ wlog[i + 1].op = "TranslateMessage"
    /\ Calls("UnregisterHotKey") # {}

\* ---- C32 ----
\* The last SetSettings call has returned nil, no call is in progress, and
\* every detection goroutine spawned so far has finished with its
\* registration granted.
Settled ==
    /\ AppAlive /\ cpc = "idle"
    /\ nCalls >= 1 /\ ssResult = "nil"
    /\ \A g \in Gs : gpc[g] \in {"none", "done"}
    /\ \A g \in 1 .. nG : hkState[g] # "failed"

\* C32: once the last SetSettings call has returned and every spawned
\* startHotkeyDetection goroutine has finished, all registrations having
\* succeeded, the only live registration is the one made for the binding of
\* that last call, and a.packageHotkey refers to it.
C32_ConvergesToLastBinding ==
    Settled =>
       /\ LiveRegistrations = {nG}
       /\ packageHotkey = nG
       /\ hkBinding[nG] = [mods |-> parseModifiers(settings.mods),
                           key |-> parseKey(settings.key)]

\* ---- C33 ----
\* CheckAccessibilityPermissions: true exactly when a.packageHotkey is set.
CheckAccessibilityPermissions == packageHotkey # 0

\* C33: a.packageHotkey is non-nil exactly when a registration of this
\* process is live, so CheckAccessibilityPermissions tells whether a hotkey
\* is registered, and every live registration is the one a.packageHotkey
\* holds, within reach of a later stopHotkeyDetection.  Stated for the
\* states in which no register or unregister step is half done.
C33_HandleMatchesReality ==
    (AppAlive /\ DetectionsInFlight = {} /\ ~StopInFlight) =>
       /\ CheckAccessibilityPermissions <=> (LiveRegistrations # {})
       /\ LiveRegistrations \subseteq {packageHotkey}

\* ---- C34 ----
\* GetSettings returns a.settings.
GetSettings == settings

\* A step in which a SetSettings call returns the error of saveSettings.
SetSettingsFails == nCalls' = nCalls + 1 /\ ssResult' = "error"

\* C34: a SetSettings call whose save fails returns an error and changes
\* nothing: the registrations, the tracked handle and the listeners are as
\* before, and GetSettings still returns the modifiers, key and FirstRun
\* that were in force before the call.
C34_FailedSetSettingsChangesNothing ==
    [][SetSettingsFails =>
          /\ hkState' = hkState /\ hkBinding' = hkBinding
          /\ packageHotkey' = packageHotkey
          /\ lpc' = lpc /\ lchan' = lchan
          /\ nG' = nG
          /\ GetSettings' = GetSettings]_vars

\* ---- C35 ----
\* The step in which startup runs, and the step in which a SetSettings call
\* whose save succeeded returns.
StartupStep == cpc = "prestart" /\ cpc' = "idle"
SetSettingsReturnsNil == cpc \in {"ss_stop", "ss_unreg"} /\ cpc' = "idle"

\* C35: startup spawns hotkey detection exactly when the database
\* initialised and FirstRun is false; on a first run it shows the setup and
\* no detection is spawned, so no hotkey is registered, before a SetSettings
\* call succeeds, and every successful SetSettings call has FirstRun cleared
\* and spawns one detection; when initDatabase fails, startup returns with
\* no detection spawned and no setup shown, the lock still held.
C35_StartupGating ==
    /\ [][/\ StartupStep =>
               /\ (nG' = nG + 1) <=> (dbInit' = "ok" /\ ~settings'.firstRun)
               /\ setupShown' <=> (dbInit' = "ok" /\ settings'.firstRun)
               /\ dbInit' = "failed" => (nG' = 0 /\ ~setupShown' /\ LockHeld')
          /\ SetSettingsReturnsNil =>
               (ssResult' = "nil" /\ ~settings'.firstRun /\ nG' = nG + 1)
          /\ (nCalls' = nCalls + 1 /\ ssResult' # "error") => ~settings'.firstRun
          /\ nG' # nG =>
               \/ StartupStep /\ dbInit' = "ok" /\ ~settings'.firstRun
               \/ SetSettingsReturnsNil]_vars
    /\ [](/\ \A g \in Gs : hkState[g] # "new" => g <= nG
          /\ (cpc # "prestart" /\ dbInit = "failed" /\ nG = 0) =>
                (LiveRegistrations = {} /\ ~setupShown)
          /\ (setupShown /\ nG = 0) => LiveRegistrations = {})

\* A first run: the setup was shown, no detection ran until SetSettings
\* succeeded, and the detection it spawned has registered the hotkey.
C35_Witness ==
    /\ setupShown /\ dbInit = "ok"
    /\ nCalls = 1 /\ ssResult = "nil" /\ ~settings.firstRun
    /\ nG = 1 /\ LiveRegistrations = {1}

====
